---- MODULE Spec2Model ----
(***************************************************************************)
(* Execution-job orchestration of Stranger-Tech-Server (src/server.ts, the *)
(* asynchronous variant that starts at line 434): submission handling,     *)
(* dispatch to Judge0 with fail-over, the polling worker, the output       *)
(* parser and the leaderboard update.                                      *)
(*                                                                         *)
(* Text is modelled as a sequence of tokens.  A token is a string that     *)
(* stands for an indivisible piece of text: the marker "__JUDGE__ ", the   *)
(* piece "Test Case i: ", a newline, a blank, a quote, or a word.          *)
(* Scores are held in hundredths (3333 is 33.33).                          *)
(***************************************************************************)
EXTENDS Integers, Sequences, FiniteSets, TLC

\* ------------------------------------------------------------ bounds
MaxJobs == 1
MaxCycles == 2
MaxOut == 6

\* ------------------------------------------------------------ text helpers
NL == "\n"
SP == " "
MARKER == "__JUDGE__ "
TestCaseTok == <<"Test Case 1: ", "Test Case 2: ", "Test Case 3: ">>

IsSpace(t) == t \in {SP, NL}

RECURSIVE IndexFrom(_, _, _)
\* String.prototype.indexOf: the first position >= k where pat occurs in s, 0 if none
IndexFrom(s, pat, k) ==
  IF k + Len(pat) - 1 > Len(s) THEN 0
  ELSE IF SubSeq(s, k, k + Len(pat) - 1) = pat THEN k
  ELSE IndexFrom(s, pat, k + 1)

Includes(s, pat) == IndexFrom(s, pat, 1) # 0

StartsWith(s, pat) == Len(s) >= Len(pat) /\ SubSeq(s, 1, Len(pat)) = pat

\* String.prototype.replace(pat, ''): removes the first occurrence only
ReplaceFirst(s, pat) ==
  LET k == IndexFrom(s, pat, 1)
  IN IF k = 0 THEN s
     ELSE SubSeq(s, 1, k - 1) \o SubSeq(s, k + Len(pat), Len(s))

RECURSIVE TrimLeft(_)
TrimLeft(s) == IF s # <<>> /\ IsSpace(Head(s)) THEN TrimLeft(Tail(s)) ELSE s

RECURSIVE TrimRight(_)
TrimRight(s) ==
  IF s # <<>> /\ IsSpace(s[Len(s)]) THEN TrimRight(SubSeq(s, 1, Len(s) - 1)) ELSE s

Trim(s) == TrimRight(TrimLeft(s))

\* String.prototype.split('\n'): the pieces between the line feeds, always at least
\* one piece
Split(s) ==
  LET feeds == {k \in 1..Len(s) : s[k] = NL}
      feed(j) == CHOOSE k \in feeds : Cardinality({m \in feeds : m < k}) = j - 1
      from(j) == IF j = 1 THEN 1 ELSE feed(j - 1) + 1
      upto(j) == IF j = Cardinality(feeds) + 1 THEN Len(s) ELSE feed(j) - 1
  IN [j \in 1..(Cardinality(feeds) + 1) |-> SubSeq(s, from(j), upto(j))]

\* what toLowerCase and the removal of inner blanks leave of one token
LowerTok(t) ==
  CASE t = "A" -> "a"
    [] t = "B" -> "b"
    [] t = MARKER -> "__judge__"
    [] t = TestCaseTok[1] -> "testcase1:"
    [] t = TestCaseTok[2] -> "testcase2:"
    [] t = TestCaseTok[3] -> "testcase3:"
    [] OTHER -> t

RECURSIVE normalize(_)
normalize(val) ==
  IF val = <<>> THEN <<>>
  ELSE LET t == Head(val)
       IN IF IsSpace(t) \/ t \in {"'", "\""} THEN normalize(Tail(val))
          ELSE <<LowerTok(t)>> \o normalize(Tail(val))

\* the element of a one-element set; {e(v) : v \in {x}} holds e at the value of x
Only(S) == CHOOSE y \in S : TRUE

\* ------------------------------------------------------------ problems
\* a test case; input and params are opaque texts
TC(inp, exp, hid) == [input |-> inp, expected |-> exp, hidden |-> hid, params |-> inp]

FALLBACK_PROBLEMS ==
  [id \in {"two-sum"} |->
     [id |-> "two-sum", functionName |-> "twoSum",
      testCases |-> << TC("nums = [2,7,11,15], target = 9", <<"a">>, FALSE),
                       TC("nums = [3,2,4], target = 6", <<"b">>, FALSE) >>]]

\* a test case stored without params
NoParams == "null"

\* the rows of the coding_problems table
coding_problems ==
  [id \in {"p3", "p0", "pn"} |->
     IF id = "pn"
     THEN [id |-> "pn", functionName |-> "solve",
           testCases |-> << [input |-> "x = 1", expected |-> <<"a">>, hidden |-> FALSE,
                             params |-> NoParams] >>]
     ELSE IF id = "p3"
     THEN [id |-> "p3", functionName |-> "solve",
           testCases |-> << TC("x = 1", <<"a">>, FALSE),
                            TC("x = 2", <<"a">>, TRUE),
                            TC("x = 3", <<"b">>, TRUE) >>]
     ELSE [id |-> "p0", functionName |-> "solve", testCases |-> <<>>]]

NoProblem == [id |-> "", functionName |-> "", testCases |-> <<>>]

\* a lookup that gives up when the store gives nothing
getProblemDetailsNoFallback(problemId, dbOk) ==
  IF dbOk /\ problemId \in DOMAIN coding_problems THEN coding_problems[problemId]
  ELSE NoProblem

\* getProblemDetails: dbOk says whether the lookup in the store answered
getProblemDetails(problemId, dbOk) ==
  IF dbOk /\ problemId \in DOMAIN coding_problems THEN coding_problems[problemId]
  ELSE IF problemId \in DOMAIN FALLBACK_PROBLEMS THEN FALLBACK_PROBLEMS[problemId]
  ELSE NoProblem

\* ------------------------------------------------------------ parser
judgeLines(stdout) == SelectSeq(Split(stdout), LAMBDA l : StartsWith(l, <<MARKER>>))

searchStr(i) == <<MARKER, TestCaseTok[i]>>

RECURSIVE FindLast(_, _)
\* a search that keeps the last line that includes pat
FindLast(lines, pat) ==
  IF lines = <<>> THEN <<>>
  ELSE IF Includes(lines[Len(lines)], pat) THEN <<lines[Len(lines)]>>
  ELSE FindLast(SubSeq(lines, 1, Len(lines) - 1), pat)

RECURSIVE FindLine(_, _)
\* Array.prototype.find(l => l.includes(pat)): the first such line, or <<>> in a
\* one-element wrapper so that "no line" differs from "an empty line"
FindLine(lines, pat) ==
  IF lines = <<>> THEN <<>>
  ELSE IF Includes(Head(lines), pat) THEN <<Head(lines)>>
  ELSE FindLine(Tail(lines), pat)

\* a result that shows the input of every case
shownInputAll(tc) == tc.input

\* input: tc.hidden ? 'Hidden' : tc.input
shownInput(tc) == IF tc.hidden THEN "Hidden" ELSE tc.input

\* params: tc.hidden ? {} : tc.params
shownParams(tc) == IF tc.hidden THEN "{}" ELSE tc.params

gradeCase(tc, index, lines) ==
  LET base == [status |-> "Pending",
               input |-> shownInput(tc),
               expected |-> tc.expected,
               actual |-> <<"N/A">>,
               params |-> shownParams(tc)]
      graded(actualRaw) ==
        [base EXCEPT !.actual = actualRaw,
                     !.status = IF normalize(tc.expected) = normalize(actualRaw)
                                THEN "Accepted" ELSE "Wrong Answer"]
      withLine(found) ==
        IF found # <<>>
        THEN Only({graded(actualRaw) :
                     actualRaw \in {Trim(ReplaceFirst(found[1], searchStr(index)))}})
        ELSE [base EXCEPT !.status = "Runtime Error"]
  IN Only({withLine(found) : found \in {FindLine(lines, searchStr(index))}})

parseResults(stdout, problem) ==
  Only({[i \in 1..Len(problem.testCases) |-> gradeCase(problem.testCases[i], i, lines)] :
          lines \in {judgeLines(stdout)}})

\* passedCount++ for every case graded Accepted
passedCountOf(stdout, problem) ==
  Only({Cardinality({i \in DOMAIN results : results[i].status = "Accepted"}) :
          results \in {parseResults(stdout, problem)}})

parseJudge0Output(stdout, problem) ==
  [results |-> parseResults(stdout, problem),
   passedCount |-> passedCountOf(stdout, problem)]

\* ------------------------------------------------------------ score
NaN == 0 - 1
\* JSON.stringify turns NaN into null on its way to the store
NULL == 0 - 2
toJSON(x) == IF x = NaN THEN NULL ELSE x

\* a score that is cut off after the second decimal instead of rounded
computeScoreFloor(passedCount, n) ==
  IF n = 0 THEN NaN ELSE (10000 * passedCount) \div n

\* parseFloat(((passedCount / n) * 100).toFixed(2)) in hundredths; 0/0 is NaN.
\* toFixed rounds to the nearest hundredth (a tie needs n to be a multiple of 32)
computeScore(passedCount, n) ==
  IF n = 0 THEN NaN ELSE (2 * 10000 * passedCount + n) \div (2 * n)

\* ------------------------------------------------------------ configuration
\* process.env.JUDGE0_URL is unset in the modelled deployment ("" is falsy)
ENV_JUDGE0_URL == ""

JUDGE0_URLS ==
  SelectSeq(<<ENV_JUDGE0_URL, "http://172.20.0.10:2358", "http://localhost:2358",
              "http://backup:2358">>, LAMBDA u : u # "")

JUDGE0_LANG_IDS ==
  [l \in {"javascript", "typescript", "python", "java", "cpp", "c"} |->
     CASE l = "javascript" -> 63 [] l = "typescript" -> 74 [] l = "python" -> 71
       [] l = "java" -> 62 [] l = "cpp" -> 54 [] l = "c" -> 50]

\* JUDGE0_LANG_IDS[language]; 0 stands for undefined
judge0IdOf(language) ==
  IF language \in DOMAIN JUDGE0_LANG_IDS THEN JUDGE0_LANG_IDS[language] ELSE 0

forbidden ==
  {"process.exit", "exec(", "spawn(", "os.system", "eval(", "__import__", "system(",
   "child_process", "fork(", "Runtime.getRuntime", "ProcessBuilder", "fs.readFile",
   "fs.writeFile", "open("}

\* a validator that tests for the empty text only, not for blank text
validateCodeNoTrim(code, language) ==
  IF code = <<>> THEN FALSE
  ELSE IF \E k \in DOMAIN code : code[k] \in forbidden THEN FALSE
  ELSE TRUE

validateCode(code, language) ==
  IF code = <<>> \/ Trim(code) = <<>> THEN FALSE
  ELSE IF \E k \in DOMAIN code : code[k] \in forbidden THEN FALSE
  ELSE TRUE

\* ------------------------------------------------------------ inputs
Codes == { <<>>, <<SP, NL>>, <<"x", "eval(">>, <<"open(", SP>>, <<"x">> }
Languages == {"python", "ruby", "java"}
ProblemIds == {"two-sum", "p3", "p0", "pn", "nope"}
UserIds == {"u1", ""}
Users == {"u1"}

\* what fetch can end with: 0 is a rejected fetch (abort after the timeout, or no
\* connection), any other value is the HTTP status of the response
HttpStatuses == {0, 201, 400, 500}

\* ------------------------------------------------------------ state
VARIABLES
  executions,   \* the executions table: row id = position
  leaderboard,  \* the leaderboard table, by user_id
  req,          \* the /api/execute requests and the background task of each
  posts,        \* how many submissions the backends were sent for each request
  judge0,       \* what the accepting backend holds for each request's submission
  sweep,        \* the invocations of the polling worker's callback
  pin,          \* parser check: the stdout given to the parser
  pproblem,     \* parser check: the problem given to the parser
  pout,         \* parser check: what the parser returned
  wlang,        \* wrapper check: the language given to generateRunner
  wcode,        \* wrapper check: the user code given to generateRunner
  wthrows,      \* wrapper check: the cases whose entry-point call throws
  wout,         \* wrapper check: what the wrapped program printed
  reply         \* the response to the /api/status/:id request, once it is sent

vars == <<executions, leaderboard, req, posts, judge0, sweep, pin, pproblem, pout,
          wlang, wcode, wthrows, wout, reply>>

\* metadata; saved_file is written but never read back, and is left out
NoMeta == [judge0_token |-> 0, judge0_url |-> "", problem_id |-> ""]

NoError == <<>>

IdleReq ==
  [pc |-> "idle", code |-> <<>>, language |-> "", problemId |-> "", userId |-> "",
   isSubmission |-> FALSE, http |-> 0, body |-> "", jobId |-> 0,
   i |-> 0, lastStatus |-> 0, lastError |-> NoError, token |-> 0, url |-> ""]

NoSubmission == [st |-> "none", url |-> "", token |-> 0, status_id |-> 0, stdout |-> <<>>,
                 stderr |-> <<>>, compile_output |-> <<>>]

IdleSweep ==
  [pc |-> "idle", jobs |-> <<>>, i |-> 0, finalStatus |-> "", output |-> <<>>,
   stderr |-> <<>>, score |-> 0, round3Score |-> 0]

NoRow == [exists |-> FALSE, round1_score |-> 0, round2_score |-> 0,
          round3_score |-> 0, overall_score |-> 0]

NoResult == [results |-> <<>>, passedCount |-> 0]

jobVars == <<executions, leaderboard, req, posts, judge0, sweep>>

parserVars == <<pin, pproblem, pout>>

wrapVars == <<wlang, wcode, wthrows, wout>>

\* user code that prints nothing of its own
NoCode == [prints |-> <<>>]
NotRun == <<"not run">>
\* no row
NoData == [id |-> 0, user_id |-> "", language |-> "", code |-> <<>>, status |-> "",
           stdout |-> <<>>, stderr |-> <<>>, score |-> 0,
           metadata |-> [judge0_token |-> 0, judge0_url |-> "", problem_id |-> ""]]
\* results is empty when the response has no results field, else it holds the field
NoReply == [http |-> 0, id |-> 0, data |-> NoData, results |-> <<>>]

\* no wrapper check is under way and no status request has been answered
InitRest ==
  /\ wlang = ""
  /\ wcode = NoCode
  /\ wthrows = {}
  /\ wout = NotRun
  /\ reply = NoReply

InitJobs ==
  /\ executions = <<>>
  /\ leaderboard \in [Users -> {NoRow, [exists |-> TRUE, round1_score |-> 4000,
                                        round2_score |-> 2500, round3_score |-> 0,
                                        overall_score |-> 6500]}]
  /\ req = [r \in 1..MaxJobs |-> IdleReq]
  /\ posts = [r \in 1..MaxJobs |-> 0]
  /\ judge0 = [r \in 1..MaxJobs |-> NoSubmission]
  /\ sweep = [c \in 1..MaxCycles |-> IdleSweep]

Init ==
  /\ InitJobs
  /\ pin = <<>>
  /\ pproblem = NoProblem
  /\ pout = NoResult
  /\ InitRest

\* ------------------------------------------------------------ submitWithFallback
responseOk(status) == status >= 200 /\ status <= 299

\* a client-class test that misses status 400
isClientStatusOff(status) == status > 400 /\ status < 500

isClientStatus(status) == status >= 400 /\ status < 500

\* the Error raised for one endpoint: its message as a sequence of pieces
errorOf(status) ==
  IF status = 0 THEN <<"This operation was aborted">>
  ELSE IF isClientStatus(status) THEN <<"Client Error: ", ToString(status)>>
  ELSE <<"Server Error: ", ToString(status)>>

\* err.message.includes("Client Error")
rethrows(err) == \E k \in DOMAIN err : err[k] = "Client Error: "

\* a loop that leaves out the last configured endpoint
exhaustedEarly(i) == i >= Len(JUDGE0_URLS)

\* the loop is over once every configured endpoint has had its turn
exhausted(i) == i > Len(JUDGE0_URLS)

\* the handle an endpoint issues; handles are endpoint-scoped
issueToken(i, r) == 10 * i + r

\* Judge0 answers 422 to a submission without language_id whenever it answers
statusesFor(languageId) ==
  IF languageId = 0 THEN HttpStatuses \ {201} ELSE HttpStatuses

\* a loop that moves on to the next endpoint after any failure
submitOutcomeNoRethrow(i, status) ==
  IF status # 0 /\ responseOk(status) THEN "return"
  ELSE IF exhausted(i + 1) THEN "throwLast"
  ELSE "next"

submitOutcome(i, status) ==
  IF status # 0 /\ responseOk(status) THEN "return"
  ELSE IF rethrows(errorOf(status)) THEN "throw"
  ELSE IF exhausted(i + 1) THEN "throwLast"
  ELSE "next"

\* ------------------------------------------------------------ /api/execute
\* Object.values(tc.params) in the java and cpp branches of generateRunner throws
\* a TypeError on a case stored without params
wrapThrows(language, problem) ==
  /\ language \in {"java", "cpp"}
  /\ \E k \in DOMAIN problem.testCases : problem.testCases[k].params = NoParams

TypeErrorMessage == <<"Cannot convert undefined or null to object">>

\* the background task from generateRunner on: the first fetch is sent, or the
\* wrapper throws and the catch block is entered
wrapped(q) ==
  IF wrapThrows(q.language, getProblemDetails(q.problemId, TRUE))
  THEN [q EXCEPT !.pc = "bg_catch", !.i = 0, !.lastError = TypeErrorMessage]
  ELSE [q EXCEPT !.pc = "bg_submit", !.i = 1]

nextReq == Cardinality({r \in DOMAIN req : req[r].pc # "idle"}) + 1

\* a row that is inserted as dispatching
dispatchingRow(id, userId, language, code) ==
  [id |-> id, user_id |-> IF userId # "" THEN userId ELSE "anonymous",
   language |-> language, code |-> code, status |-> "dispatching",
   stdout |-> <<>>, stderr |-> <<>>, score |-> 0, metadata |-> NoMeta]

queuedRow(id, userId, language, code) ==
  [id |-> id, user_id |-> IF userId # "" THEN userId ELSE "anonymous",
   language |-> language, code |-> code, status |-> "queued",
   stdout |-> <<>>, stderr |-> <<>>, score |-> 0, metadata |-> NoMeta]

\* the handler up to the insert into executions
Execute(r, code, language, problemId, userId, isSubmission, dbOk, insertOk) ==
  /\ r = nextReq
  /\ LET problem == getProblemDetails(problemId, dbOk)
         in == [IdleReq EXCEPT !.code = code, !.language = language,
                               !.problemId = problemId]
     IN IF problem = NoProblem
        THEN /\ req' = [req EXCEPT ![r] = [in EXCEPT !.pc = "done", !.http = 404,
                                                     !.body = "Problem not found."]]
             /\ UNCHANGED executions
        ELSE IF ~validateCode(code, language)
        THEN /\ req' = [req EXCEPT ![r] = [in EXCEPT !.pc = "done", !.http = 400,
                                                     !.body = "Restricted content detected."]]
             /\ UNCHANGED executions
        ELSE IF ~insertOk
        THEN /\ req' = [req EXCEPT ![r] = [in EXCEPT !.pc = "done", !.http = 500,
                                                     !.body = "DB Insert Failed"]]
             /\ UNCHANGED executions
        ELSE /\ executions' = Append(executions,
                                queuedRow(Len(executions) + 1, userId, language, code))
             /\ req' = [req EXCEPT ![r] = [in EXCEPT !.pc = "inserted",
                                                     !.userId = userId,
                                                     !.isSubmission = isSubmission,
                                                     !.jobId = Len(executions) + 1]]
  /\ UNCHANGED <<leaderboard, posts, judge0, sweep, parserVars, wrapVars, reply>>

\* res.json({job_id, status: 'queued'}), then the background task runs up to its
\* first await: the upload when isSubmission, the first fetch otherwise
Ack(r) ==
  /\ req[r].pc = "inserted"
  /\ req' = [req EXCEPT ![r] =
                LET q == [req[r] EXCEPT !.http = 200, !.body = "queued",
                                        !.isSubmission = FALSE]
                IN IF req[r].isSubmission THEN [q EXCEPT !.pc = "bg_save", !.i = 0]
                   ELSE wrapped(q)]
  /\ UNCHANGED <<executions, leaderboard, posts, judge0, sweep, parserVars, wrapVars, reply>>

\* saveToBucket resolves (with the stored path or with "error_saving")
BgSave(r) ==
  /\ req[r].pc = "bg_save"
  /\ req' = [req EXCEPT ![r] = wrapped(req[r])]
  /\ UNCHANGED <<executions, leaderboard, posts, judge0, sweep, parserVars, wrapVars, reply>>

\* a catch block that keeps the first error it saw
observedFirst(lastError, err) == IF lastError = NoError THEN err ELSE lastError

\* lastError = err
observed(lastError, err) == err

AllFailedMessage == <<"All Judge0 instances failed.">>

\* throw lastError || new Error("All Judge0 instances failed.")
surfaced(lastError) == IF lastError = NoError THEN AllFailedMessage ELSE lastError

\* status.id of a submission that was accepted and has not finished
InQueue == 1

\* one turn of the loop of submitWithFallback: the fetch to JUDGE0_URLS[i] ends
BgSubmit(r, status) ==
  /\ req[r].pc = "bg_submit"
  /\ status \in statusesFor(judge0IdOf(req[r].language))
  /\ LET i == req[r].i
         out == submitOutcome(i, status)
     IN /\ posts' = [posts EXCEPT ![r] = @ + 1]
        /\ CASE out = "return" ->
                  /\ req' = [req EXCEPT ![r].pc = "bg_update", ![r].i = 0,
                                        ![r].lastStatus = status,
                                        ![r].lastError = NoError,
                                        ![r].token = issueToken(i, r),
                                        ![r].url = JUDGE0_URLS[i]]
                  /\ judge0' = [judge0 EXCEPT ![r] = [NoSubmission EXCEPT
                                                        !.st = "pending",
                                                        !.status_id = InQueue,
                                                        !.token = issueToken(i, r),
                                                        !.url = JUDGE0_URLS[i]]]
             [] out = "next" ->
                  /\ req' = [req EXCEPT ![r].i = i + 1,
                                        ![r].lastStatus = status,
                                        ![r].lastError =
                                           observed(req[r].lastError, errorOf(status))]
                  /\ UNCHANGED judge0
             [] OTHER ->
                  /\ req' = [req EXCEPT ![r].pc = "bg_catch",
                                        ![r].lastStatus = status,
                                        ![r].lastError =
                                           IF out = "throw" THEN errorOf(status)
                                           ELSE surfaced(observed(req[r].lastError,
                                                                  errorOf(status)))]
                  /\ UNCHANGED judge0
  /\ UNCHANGED <<executions, leaderboard, sweep, parserVars, wrapVars, reply>>

\* a metadata that names the primary endpoint whichever endpoint accepted
metadataPrimary(token, employedUrl, problemId) ==
  [judge0_token |-> token, judge0_url |-> JUDGE0_URLS[1], problem_id |-> problemId]

\* metadata: { judge0_token: token, judge0_url: employedUrl, problem_id: problemId }
metadataOf(token, employedUrl, problemId) ==
  [judge0_token |-> token, judge0_url |-> employedUrl, problem_id |-> problemId]

\* the update that follows a successful submitWithFallback
BgRunning(r) ==
  /\ req[r].pc = "bg_update"
  /\ executions' = [executions EXCEPT
       ![req[r].jobId].status = "running",
       ![req[r].jobId].metadata = metadataOf(req[r].token, req[r].url, req[r].problemId)]
  /\ req' = [req EXCEPT ![r].pc = "done", ![r].lastStatus = 0]
  /\ UNCHANGED <<leaderboard, posts, judge0, sweep, parserVars, wrapVars, reply>>

\* an update that sets the status and drops the message
failedRowNoDetail(row, message) == [row EXCEPT !.status = "error"]

\* .update({ status: 'error', stderr: bgError.message })
failedRow(row, message) == [row EXCEPT !.status = "error", !.stderr = message]

\* the catch block of the background task
BgCatch(r) ==
  /\ req[r].pc = "bg_catch"
  /\ executions' = [executions EXCEPT
       ![req[r].jobId] = failedRow(executions[req[r].jobId], req[r].lastError)]
  /\ req' = [req EXCEPT ![r].pc = "done", ![r].lastStatus = 0,
                        ![r].lastError = NoError, ![r].i = 0]
  /\ UNCHANGED <<leaderboard, posts, judge0, sweep, parserVars, wrapVars, reply>>

\* ------------------------------------------------------------ the backend
\* Judge0 returns texts base64-encoded, and null for a stream that stayed empty
b64(s) == IF s = <<>> THEN <<>> ELSE <<"base64:">> \o s
\* Buffer.from(x, 'base64').toString('utf-8')
fromB64(x) == IF x = <<>> THEN <<>> ELSE Tail(x)

markerLine(i, text) == <<MARKER, TestCaseTok[i]>> \o text \o <<NL>>

RECURSIVE outputOf(_, _, _)
\* the stdout of a harness run whose cases 1..good print the expected text and
\* whose later cases print the text "zz"
outputOf(cases, k, good) ==
  IF k > Len(cases) THEN <<>>
  ELSE markerLine(k, IF k <= good THEN cases[k].expected ELSE <<"zz">>)
       \o outputOf(cases, k + 1, good)

\* what the backend may end up holding for a submission against a problem
Verdicts(problem) ==
  { [status_id |-> 3, stdout |-> b64(outputOf(problem.testCases, 1, good)),
     stderr |-> <<>>, compile_output |-> <<>>] : good \in 0..Len(problem.testCases) }
  \cup
  { [status_id |-> 11, stdout |-> <<>>, stderr |-> b64(<<"Traceback">>),
     compile_output |-> <<>>],
    [status_id |-> 6, stdout |-> <<>>, stderr |-> <<>>,
     compile_output |-> b64(<<"SyntaxError">>)] }

\* the problem a request was submitted against, as the backend ran it
problemOf(r) == getProblemDetails(req[r].problemId, TRUE)

JudgeFinish(r, v) ==
  /\ judge0[r].st = "pending"
  /\ v \in Verdicts(problemOf(r))
  /\ judge0' = [judge0 EXCEPT ![r] = [st |-> "done", url |-> judge0[r].url,
                                      token |-> judge0[r].token,
                                      status_id |-> v.status_id, stdout |-> v.stdout,
                                      stderr |-> v.stderr,
                                      compile_output |-> v.compile_output]]
  /\ UNCHANGED <<executions, leaderboard, req, posts, sweep, parserVars, wrapVars, reply>>

\* ------------------------------------------------------------ polling worker
SweepLimit == 10

Min(a, b) == IF a < b THEN a ELSE b

runningIds ==
  {id \in DOMAIN executions :
     executions[id].status = "running" /\ executions[id].metadata # NoMeta}

\* .eq('status','running').not('metadata','is',null).limit(10): the store returns
\* up to ten of the matching rows, in an order of its choosing
selections ==
  LET n == Min(Cardinality(runningIds), SweepLimit)
  IN {s \in [1..n -> runningIds] : \A a, b \in 1..n : a # b => s[a] # s[b]}

\* the request whose submission a job row stands for
reqOfJob(id) == CHOOSE r \in DOMAIN req : req[r].jobId = id

\* the timer fires: the callback reads the running jobs
SweepStart(c, sel) ==
  /\ sweep[c].pc = "idle"
  /\ \A d \in 1..(c - 1) : sweep[d].pc # "idle"
  /\ sel \in selections
  /\ sel # <<>>
  /\ sweep' = [sweep EXCEPT ![c] = [IdleSweep EXCEPT !.pc = "fetch", !.jobs = sel, !.i = 1]]
  /\ UNCHANGED <<executions, leaderboard, req, posts, judge0, parserVars, wrapVars, reply>>

\* a loop that a failed poll ends
nextJobNone(w) == IdleSweep

\* the loop moves on to the next job of this cycle, or the callback returns
nextJob(w) ==
  IF w.i < Len(w.jobs)
  THEN [IdleSweep EXCEPT !.pc = "fetch", !.jobs = w.jobs, !.i = w.i + 1]
  ELSE IdleSweep

curJob(c) == sweep[c].jobs[sweep[c].i]

\* a test that takes a submission in the queue for a finished one
isFinishedFrom1(status_id) == status_id > 0

\* a test that takes status 3 for a submission still running
isFinishedAfter3(status_id) == status_id > 3

\* data.status.id <= 2 means the submission is still in the queue or running
isFinished(status_id) == status_id > 2

\* the fetch is rejected or times out, the response is not ok, reading the reply
\* throws into the catch of the loop body, or status.id <= 2
PollSkip(c) ==
  /\ sweep[c].pc = "fetch"
  /\ sweep' = [sweep EXCEPT ![c] = nextJob(sweep[c])]
  /\ UNCHANGED <<executions, leaderboard, req, posts, judge0, parserVars, wrapVars, reply>>

\* what the loop body computes from a reply with status.id > 2
verdictOf(data, problem) ==
  IF data.status_id = 6
  THEN [finalStatus |-> "error", output |-> fromB64(data.compile_output),
        stderr |-> <<>>, score |-> 0]
  ELSE LET stdoutRaw == fromB64(data.stdout)
           stderr == fromB64(data.stderr)
       IN IF problem # NoProblem
          THEN [finalStatus |-> "completed", output |-> stdoutRaw, stderr |-> stderr,
                score |-> computeScore(parseJudge0Output(stdoutRaw, problem).passedCount,
                                       Len(problem.testCases))]
          ELSE [finalStatus |-> "error", output |-> <<>>, stderr |-> stderr, score |-> 0]

\* the reply says the submission has finished; the problem is fetched again
PollFinished(c, dbOk) ==
  /\ sweep[c].pc = "fetch"
  /\ LET job == executions[curJob(c)]
         data == judge0[reqOfJob(curJob(c))]
     IN /\ data.st # "none"
        /\ data.url = job.metadata.judge0_url
        /\ data.token = job.metadata.judge0_token
        /\ isFinished(data.status_id)
        /\ \E v \in {verdictOf(data, getProblemDetails(job.metadata.problem_id, dbOk))} :
             sweep' = [sweep EXCEPT ![c].pc = "update",
                                    ![c].finalStatus = v.finalStatus,
                                    ![c].output = v.output,
                                    ![c].stderr = v.stderr,
                                    ![c].score = v.score]
  /\ UNCHANGED <<executions, leaderboard, req, posts, judge0, parserVars, wrapVars, reply>>

\* a test that takes every stored user id for an identity
hasIdentityAlways(user_id) == TRUE

\* job.user_id && job.user_id !== 'anonymous'
hasIdentity(user_id) == user_id # "" /\ user_id # "anonymous"

\* .update({status, stdout, stderr, score}).eq('id', job.id)
PollUpdate(c) ==
  /\ sweep[c].pc = "update"
  /\ LET id == curJob(c)
         w == sweep[c]
     IN /\ executions' = [executions EXCEPT ![id].status = w.finalStatus,
                                            ![id].stdout = w.output,
                                            ![id].stderr = w.stderr,
                                            ![id].score = toJSON(w.score)]
        /\ sweep' = [sweep EXCEPT ![c] =
                       IF hasIdentity(executions[id].user_id)
                       THEN [w EXCEPT !.pc = "lb_read"]
                       ELSE nextJob(w)]
  /\ UNCHANGED <<leaderboard, req, posts, judge0, parserVars, wrapVars, reply>>

\* Math.max with NaN is NaN
mathMax(a, b) == IF a = NaN \/ b = NaN THEN NaN ELSE IF a > b THEN a ELSE b

\* a + b with NaN
plus(a, b) == IF a = NaN \/ b = NaN THEN NaN ELSE a + b

\* parseFloat(ex.score || '0')
storedScore(x) == IF x = NULL THEN 0 ELSE x

\* x || 0
orZero(x) == IF x = NaN \/ x = NULL THEN 0 ELSE x

RECURSIVE foldMax(_, _, _)
\* the forEach over allExecs: the best stored score of the rows of one problem
foldMax(rows, pid, k) ==
  IF k > Len(rows) THEN 0
  ELSE LET rest == foldMax(rows, pid, k + 1)
       IN IF rows[k].metadata.problem_id = pid
          THEN mathMax(rest, storedScore(rows[k].score))
          ELSE rest

RECURSIVE sumOver(_, _)
sumOver(f, S) ==
  IF S = {} THEN 0
  ELSE LET x == CHOOSE y \in S : TRUE IN plus(f[x], sumOver(f, S \ {x}))

\* bestScores and round3Score as the loop body computes them
round3Of(rows, userId, problem_id, score) ==
  LET allExecs == SelectSeq(rows, LAMBDA ex : ex.user_id = userId
                                             /\ ex.status \in {"completed", "success"})
      pids == {allExecs[k].metadata.problem_id : k \in DOMAIN allExecs} \ {""}
      best == [pid \in pids \cup {problem_id} |->
                 LET b == IF pid \in pids THEN foldMax(allExecs, pid, 1) ELSE 0
                 IN IF pid = problem_id THEN mathMax(orZero(b), score) ELSE b]
  IN sumOver(best, DOMAIN best)

\* the select of the user's completed executions
PollLbRead(c) ==
  /\ sweep[c].pc = "lb_read"
  /\ LET job == executions[curJob(c)]
     IN sweep' = [sweep EXCEPT ![c].pc = "lb_write",
                               ![c].round3Score =
                                  round3Of(executions, job.user_id,
                                           job.metadata.problem_id, sweep[c].score)]
  /\ UNCHANGED <<executions, leaderboard, req, posts, judge0, parserVars, wrapVars, reply>>

\* an overall total that leaves out the prior rounds
overallRoundOnly(r1, r2, round3Score) == round3Score

\* overall_score: r1 + r2 + round3Score
overallOf(r1, r2, round3Score) == plus(r1 + r2, round3Score)

\* the select of the existing leaderboard row and the upsert
PollLbWrite(c) ==
  /\ sweep[c].pc = "lb_write"
  /\ LET u == executions[curJob(c)].user_id
         existing == leaderboard[u]
         r1 == orZero(existing.round1_score)
         r2 == orZero(existing.round2_score)
     IN leaderboard' = [leaderboard EXCEPT ![u] =
                          [existing EXCEPT !.exists = TRUE,
                                           !.round3_score = toJSON(sweep[c].round3Score),
                                           !.overall_score =
                                              toJSON(overallOf(r1, r2, sweep[c].round3Score))]]
  /\ sweep' = [sweep EXCEPT ![c] = nextJob(sweep[c])]
  /\ UNCHANGED <<executions, req, posts, judge0, parserVars, wrapVars, reply>>

\* ------------------------------------------------------------ status endpoint
\* the response of GET /api/status/:id; selOk says whether the select of the row
\* answered, dbOk whether the lookup of the problem in the store answered
statusReply(id, selOk, dbOk) ==
  IF ~selOk \/ id \notin DOMAIN executions
  THEN [NoReply EXCEPT !.http = 404, !.id = id]
  ELSE LET data == executions[id]
           problem == getProblemDetails(IF data.metadata.problem_id # ""
                                        THEN data.metadata.problem_id ELSE "two-sum", dbOk)
       IN IF data.status \in {"completed", "success"} /\ problem # NoProblem
          THEN [http |-> 200, id |-> id, data |-> data,
                results |-> <<parseJudge0Output(data.stdout, problem).results>>]
          ELSE [http |-> 200, id |-> id, data |-> data, results |-> <<>>]

StatusQuery(id, selOk, dbOk) ==
  /\ reply = NoReply
  /\ reply' = statusReply(id, selOk, dbOk)
  /\ UNCHANGED <<jobVars, parserVars, wrapVars>>

\* ------------------------------------------------------------ specification
Next ==
  \/ \E r \in DOMAIN req : r = nextReq /\
       \E code \in Codes, language \in Languages, problemId \in ProblemIds,
          userId \in UserIds, isSubmission \in BOOLEAN, dbOk \in BOOLEAN,
          insertOk \in BOOLEAN :
         Execute(r, code, language, problemId, userId, isSubmission, dbOk, insertOk)
  \/ \E r \in DOMAIN req : Ack(r)
  \/ \E r \in DOMAIN req : BgSave(r)
  \/ \E r \in DOMAIN req, status \in HttpStatuses : BgSubmit(r, status)
  \/ \E r \in DOMAIN req : BgRunning(r)
  \/ \E r \in DOMAIN req : BgCatch(r)
  \/ \E r \in DOMAIN req : \E v \in Verdicts(problemOf(r)) : JudgeFinish(r, v)
  \/ \E c \in DOMAIN sweep : \E sel \in selections : SweepStart(c, sel)
  \/ \E c \in DOMAIN sweep : PollSkip(c)
  \/ \E c \in DOMAIN sweep, dbOk \in BOOLEAN : PollFinished(c, dbOk)
  \/ \E c \in DOMAIN sweep : PollUpdate(c)
  \/ \E c \in DOMAIN sweep : PollLbRead(c)
  \/ \E c \in DOMAIN sweep : PollLbWrite(c)
  \/ \E id \in 1..MaxJobs, selOk \in BOOLEAN, dbOk \in BOOLEAN : StatusQuery(id, selOk, dbOk)

Spec == Init /\ [][Next]_vars

\* ------------------------------------------------------------ with restarts
\* what is left of a handler when the process dies: its locals are gone, and a
\* request that was being served is never resumed
lost(q) ==
  [q EXCEPT !.pc = IF q.pc = "idle" THEN "idle" ELSE "done",
            !.i = 0, !.lastStatus = 0, !.lastError = NoError, !.token = 0, !.url = ""]

\* the process stops and starts again: the rows of the store and the submissions
\* held by the backends stay, every pending callback is gone, and setInterval
\* registers the polling worker anew
Restart ==
  /\ \E r \in DOMAIN req : req[r].pc # "idle"
  /\ req' = [r \in DOMAIN req |-> lost(req[r])]
  /\ sweep' = [c \in DOMAIN sweep |-> IdleSweep]
  /\ UNCHANGED <<executions, leaderboard, posts, judge0, parserVars, wrapVars, reply>>

NextRestart == Next \/ Restart

SpecRestart == Init /\ [][NextRestart]_vars

\* ------------------------------------------------------------ parser alone
\* the pieces a program's output is made of in the parser check
OutTokens == {MARKER, TestCaseTok[1], TestCaseTok[2], "a", SP, NL}

Outputs == UNION {[1..n -> OutTokens] : n \in 0..MaxOut}

InitParse ==
  /\ executions = <<>>
  /\ leaderboard = [u \in Users |-> NoRow]
  /\ req = [r \in 1..MaxJobs |-> IdleReq]
  /\ posts = [r \in 1..MaxJobs |-> 0]
  /\ judge0 = [r \in 1..MaxJobs |-> NoSubmission]
  /\ sweep = [c \in 1..MaxCycles |-> IdleSweep]
  /\ pin \in Outputs
  /\ pproblem \in {FALLBACK_PROBLEMS["two-sum"], coding_problems["p3"]}
  /\ pout = NoResult
  /\ InitRest

\* one call of parseJudge0Output
Parse ==
  /\ pout = NoResult
  /\ pout' = parseJudge0Output(pin, pproblem)
  /\ UNCHANGED <<jobVars, pin, pproblem, wrapVars, reply>>

SpecParse == InitParse /\ [][Parse]_vars

\* ------------------------------------------------------------ grading alone
\* the left and right curly double quotes, U+201C and U+201D
LDQUO == "u201C"
RDQUO == "u201D"

MaxText == 3
TextTokens == {"a", "A", SP, "'", "\"", LDQUO}
Texts == UNION {[1..n -> TextTokens] : n \in 0..MaxText}

\* a problem with one visible case that expects e
gradeProblem(e) ==
  [id |-> "g", functionName |-> "solve", testCases |-> <<TC("x = 1", e, FALSE)>>]

\* the output holds the marker line of case 1 with the text t as its result
InitGrade ==
  /\ executions = <<>>
  /\ leaderboard = [u \in Users |-> NoRow]
  /\ req = [r \in 1..MaxJobs |-> IdleReq]
  /\ posts = [r \in 1..MaxJobs |-> 0]
  /\ judge0 = [r \in 1..MaxJobs |-> NoSubmission]
  /\ sweep = [c \in 1..MaxCycles |-> IdleSweep]
  /\ pin \in {searchStr(1) \o t : t \in Texts}
  /\ pproblem \in {gradeProblem(e) : e \in Texts}
  /\ pout = NoResult
  /\ InitRest

SpecGrade == InitGrade /\ [][Parse]_vars

\* ------------------------------------------------------------ wrapper alone
\* generateRunner returns a program; a program is kept as the harness it carries,
\* the number of cases the harness loops over, and the user code embedded in it
generateRunner(language, problem, userCode) ==
  IF language \in {"javascript", "typescript"}
  THEN [harness |-> "js", n |-> Len(problem.testCases), userCode |-> userCode]
  ELSE IF language = "python"
  THEN [harness |-> "python", n |-> Len(problem.testCases), userCode |-> userCode]
  ELSE IF language = "java"
  THEN [harness |-> "java", n |-> Len(problem.testCases), userCode |-> userCode]
  ELSE IF language = "cpp"
  THEN [harness |-> "cpp", n |-> Len(problem.testCases), userCode |-> userCode]
  ELSE [harness |-> "none", n |-> 0, userCode |-> userCode]

RECURSIVE harnessOutput(_, _, _)
\* the loop of a harness: the marker line of case k holds the result of the call,
\* or ERROR_RUNTIME from the catch block when the call throws
harnessOutput(n, k, throws) ==
  IF k > n THEN <<>>
  ELSE markerLine(k, IF k \in throws THEN <<"ERROR_RUNTIME">> ELSE <<"r">>)
       \o harnessOutput(n, k + 1, throws)

\* the stdout of a run of the program: what the user code prints by itself, then
\* what the harness prints, if the program has one
runProgram(program, throws) ==
  program.userCode.prints \o
    (IF program.harness = "none" THEN <<>> ELSE harnessOutput(program.n, 1, throws))

UserCodes == {NoCode, [prints |-> <<"hello", NL>>]}

InitWrap ==
  /\ executions = <<>>
  /\ leaderboard = [u \in Users |-> NoRow]
  /\ req = [r \in 1..MaxJobs |-> IdleReq]
  /\ posts = [r \in 1..MaxJobs |-> 0]
  /\ judge0 = [r \in 1..MaxJobs |-> NoSubmission]
  /\ sweep = [c \in 1..MaxCycles |-> IdleSweep]
  /\ pin = <<>>
  /\ pout = NoResult
  /\ reply = NoReply
  /\ pproblem \in {FALLBACK_PROBLEMS["two-sum"], coding_problems["p3"], coding_problems["p0"]}
  /\ wlang \in DOMAIN JUDGE0_LANG_IDS
  /\ wcode \in UserCodes
  /\ wthrows \in SUBSET (1..Len(pproblem.testCases))
  /\ wout = NotRun

\* the wrapped program is produced and run
Wrap ==
  /\ wout = NotRun
  /\ wout' = runProgram(generateRunner(wlang, pproblem, wcode), wthrows)
  /\ UNCHANGED <<jobVars, parserVars, wlang, wcode, wthrows, reply>>

SpecWrap == InitWrap /\ [][Wrap]_vars

\* ------------------------------------------------------------ java wrapper alone
\* how many tokens of code, from position k on, are whitespace (the regex \s+)
RECURSIVE spaces(_, _)
spaces(code, k) ==
  IF k <= Len(code) /\ IsSpace(code[k]) THEN 1 + spaces(code, k + 1) ELSE 0

\* identifiers that begin with the text Solution
SolutionTokens == {"Solution", "Solution2"}

\* the length of the match of /public\s+class\s+Solution/ that starts at position
\* k of code, 0 if there is none; the match ends inside the identifier it meets
matchAt(code, k) ==
  IF k > Len(code) \/ code[k] # "public" THEN 0
  ELSE LET w1 == spaces(code, k + 1)
           c == k + 1 + w1
       IN IF w1 = 0 \/ c > Len(code) \/ code[c] # "class" THEN 0
          ELSE LET w2 == spaces(code, c + 1)
                   t == c + 1 + w2
               IN IF w2 = 0 \/ t > Len(code) \/ code[t] \notin SolutionTokens THEN 0
                  ELSE t - k + 1

\* userCode.replace(/public\s+class\s+Solution/, 'class Solution'): the first
\* match only
sanitize(userCode) ==
  LET hits == {k \in DOMAIN userCode : matchAt(userCode, k) > 0}
  IN IF hits = {} THEN userCode
     ELSE LET k == CHOOSE h \in hits : \A g \in hits : h <= g
              m == matchAt(userCode, k)
          IN SubSeq(userCode, 1, k - 1) \o <<"class", SP, userCode[k + m - 1]>>
             \o SubSeq(userCode, k + m, Len(userCode))

JavaPrelude == <<"import java.util.*;", NL, "import java.io.*;", NL, NL>>

\* the Main class of the java branch, with one try block per test case
JavaMain(problem) ==
  <<NL, NL, "public", SP, "class", SP, "Main", SP, "{", ToString(Len(problem.testCases)),
    "}", NL>>

\* the java branch of generateRunner as text
javaSource(problem, userCode) ==
  JavaPrelude \o sanitize(userCode) \o JavaMain(problem)

MaxPieces == 3

\* fragments of user code
Pieces ==
  { <<"public", SP, "class", SP, "Solution", SP, "{}", NL>>,
    <<"public", NL, "class", SP, SP, "Solution", SP, "{}", NL>>,
    <<"public", SP, "class", SP, "Solution2", SP, "{}", NL>>,
    <<"public", SP, "final", SP, "class", SP, "Solution", SP, "{}", NL>>,
    <<"class", SP, "Solution", SP, "{}", NL>>,
    <<"//", SP>>,
    <<"int", SP, "x;", NL>> }

RECURSIVE flatten(_)
flatten(ps) == IF ps = <<>> THEN <<>> ELSE Head(ps) \o flatten(Tail(ps))

JavaCodes == {flatten(ps) : ps \in UNION {[1..n -> Pieces] : n \in 1..MaxPieces}}

InitJava ==
  /\ InitJobs
  /\ pin = <<>>
  /\ pout = NoResult
  /\ reply = NoReply
  /\ pproblem \in {FALLBACK_PROBLEMS["two-sum"], coding_problems["p0"]}
  /\ wlang = "java"
  /\ wcode \in JavaCodes
  /\ wthrows = {}
  /\ wout = NotRun

WrapJava ==
  /\ wout = NotRun
  /\ wout' = javaSource(pproblem, wcode)
  /\ UNCHANGED <<jobVars, parserVars, wlang, wcode, wthrows, reply>>

SpecJava == InitJava /\ [][WrapJava]_vars

\* ------------------------------------------------------------ leaderboard alone
MaxPrior == 2
BoardUsers == {"u1", "u2"}
BoardProblems == {"two-sum", "p3", "p0"}

\* a problem together with what the backend may hold for a run against it
Runs == UNION {{<<pid, v>> : v \in Verdicts(getProblemDetails(pid, TRUE))} :
                 pid \in BoardProblems}

\* the row of a job that the background task has set to running
runningRow(id, userId, pid) ==
  [queuedRow(id, userId, "python", <<"x">>) EXCEPT
     !.status = "running",
     !.metadata = [judge0_token |-> issueToken(1, id), judge0_url |-> JUDGE0_URLS[1],
                   problem_id |-> pid]]

\* the row of a job after the polling worker has written its verdict
finishedRow(id, userId, run) ==
  LET w == verdictOf(run[2], getProblemDetails(run[1], TRUE))
  IN [runningRow(id, userId, run[1]) EXCEPT
        !.status = w.finalStatus, !.stdout = w.output, !.stderr = w.stderr,
        !.score = toJSON(w.score)]

\* a cycle that has computed the verdict of the one job it selected
gradedSweep(id, run) ==
  LET w == verdictOf(run[2], getProblemDetails(run[1], TRUE))
  IN [IdleSweep EXCEPT !.pc = "update", !.jobs = <<id>>, !.i = 1,
                       !.finalStatus = w.finalStatus, !.output = w.output,
                       !.stderr = w.stderr, !.score = w.score]

\* earlier jobs of some users are finished; the last job, of user u1, is running and
\* one cycle is about to write its verdict
InitBoard ==
  /\ \E n \in 0..MaxPrior : \E prior \in [1..n -> BoardUsers \X Runs] : \E run \in Runs :
       /\ executions = [k \in 1..(n + 1) |->
                          IF k <= n THEN finishedRow(k, prior[k][1], prior[k][2])
                          ELSE runningRow(k, "u1", run[1])]
       /\ sweep = [c \in 1..MaxCycles |->
                     IF c = 1 THEN gradedSweep(n + 1, run) ELSE IdleSweep]
  /\ leaderboard \in [Users -> {NoRow, [exists |-> TRUE, round1_score |-> 4000,
                                        round2_score |-> 2500, round3_score |-> 0,
                                        overall_score |-> 6500]}]
  /\ req = [r \in 1..MaxJobs |-> IdleReq]
  /\ posts = [r \in 1..MaxJobs |-> 0]
  /\ judge0 = [r \in 1..MaxJobs |-> NoSubmission]
  /\ pin = <<>>
  /\ pproblem = NoProblem
  /\ pout = NoResult
  /\ InitRest

BoardNext == \E c \in DOMAIN sweep : PollUpdate(c) \/ PollLbRead(c) \/ PollLbWrite(c)

SpecBoard == InitBoard /\ [][BoardNext]_vars

\* ------------------------------------------------------------ two jobs of one user
RaceProblems == <<"p3", "two-sum">>

\* the request of a job whose background task has come to its last update, or has
\* ended
dispatchedReq(id, pid, ended) ==
  [IdleReq EXCEPT !.pc = IF ended THEN "done" ELSE "bg_update",
                  !.code = <<"x">>, !.language = "python", !.problemId = pid,
                  !.userId = "u1", !.http = 200, !.body = "queued", !.jobId = id,
                  !.token = issueToken(1, id), !.url = JUDGE0_URLS[1]]

\* what the accepting backend holds once the run has ended with verdict v
finishedRun(id, v) ==
  [st |-> "done", url |-> JUDGE0_URLS[1], token |-> issueToken(1, id),
   status_id |-> v.status_id, stdout |-> v.stdout, stderr |-> v.stderr,
   compile_output |-> v.compile_output]

\* user u1 has two jobs on two problems: the first is running, the second is about
\* to be set running; both runs have ended at the backend
InitRace ==
  /\ executions = <<runningRow(1, "u1", RaceProblems[1]),
                    queuedRow(2, "u1", "python", <<"x">>)>>
  /\ req = [r \in 1..2 |-> dispatchedReq(r, RaceProblems[r], r = 1)]
  /\ posts = [r \in 1..2 |-> 1]
  /\ \E v1 \in Verdicts(getProblemDetails(RaceProblems[1], TRUE)),
        v2 \in Verdicts(getProblemDetails(RaceProblems[2], TRUE)) :
       judge0 = <<finishedRun(1, v1), finishedRun(2, v2)>>
  /\ sweep = [c \in 1..MaxCycles |-> IdleSweep]
  /\ leaderboard = [u \in Users |-> NoRow]
  /\ pin = <<>>
  /\ pproblem = NoProblem
  /\ pout = NoResult
  /\ InitRest

RaceNext ==
  \/ \E r \in DOMAIN req : BgRunning(r)
  \/ \E c \in DOMAIN sweep : \E sel \in selections : SweepStart(c, sel)
  \/ \E c \in DOMAIN sweep : PollSkip(c)
  \/ \E c \in DOMAIN sweep : \E dbOk \in BOOLEAN : PollFinished(c, dbOk)
  \/ \E c \in DOMAIN sweep : PollUpdate(c)
  \/ \E c \in DOMAIN sweep : PollLbRead(c)
  \/ \E c \in DOMAIN sweep : PollLbWrite(c)

SpecRace == InitRace /\ [][RaceNext]_vars

\* ------------------------------------------------------------ many running jobs
\* one running job more than a cycle selects
Crowd == SweepLimit + 1

\* the ids of S in ascending order
ascending(S) ==
  [i \in 1..Cardinality(S) |-> CHOOSE x \in S : Cardinality({y \in S : y < x}) = i - 1]

\* the selections of the polling worker listed by ascending id: which of the
\* matching rows the store returns under .limit(10) is the store's choice
orderedSelections ==
  {ascending(S) : S \in {T \in SUBSET runningIds :
                           Cardinality(T) = Min(Cardinality(runningIds), SweepLimit)}}

\* Crowd anonymous jobs are running; the runs of the first stuck of them stay in
\* the queue of their backend, the runs of the others have ended
InitCrowd ==
  /\ executions = [id \in 1..Crowd |-> runningRow(id, "anonymous", "two-sum")]
  /\ req = [r \in 1..Crowd |-> [dispatchedReq(r, "two-sum", TRUE) EXCEPT !.userId = ""]]
  /\ posts = [r \in 1..Crowd |-> 1]
  /\ \E stuck \in (SweepLimit - 1)..Crowd :
       judge0 = [r \in 1..Crowd |->
                   IF r <= stuck
                   THEN [NoSubmission EXCEPT !.st = "pending", !.status_id = InQueue,
                                             !.token = issueToken(1, r),
                                             !.url = JUDGE0_URLS[1]]
                   ELSE finishedRun(r, [status_id |-> 3,
                                        stdout |-> b64(outputOf(FALLBACK_PROBLEMS["two-sum"].testCases, 1, 2)),
                                        stderr |-> <<>>, compile_output |-> <<>>])]
  /\ sweep = [c \in 1..1 |-> IdleSweep]
  /\ leaderboard = [u \in Users |-> NoRow]
  /\ pin = <<>>
  /\ pproblem = NoProblem
  /\ pout = NoResult
  /\ InitRest

CrowdNext ==
  \/ \E sel \in orderedSelections : SweepStart(1, sel)
  \/ PollSkip(1)
  \/ \E dbOk \in BOOLEAN : PollFinished(1, dbOk)
  \/ PollUpdate(1)

\* the timer keeps firing and a callback keeps running; the fetch for a finished
\* run does not fail forever
SpecCrowd ==
  /\ InitCrowd
  /\ [][CrowdNext]_vars
  /\ WF_vars(CrowdNext)
  /\ SF_vars(\E dbOk \in BOOLEAN : PollFinished(1, dbOk))

\* ------------------------------------------------------------ fairness
\* every pending await resolves (each fetch has its abort timer), the timer keeps
\* firing, the backend finishes every submission it accepted, and a poll of a
\* finished submission is answered again and again
JobStep(r) ==
  \/ Ack(r)
  \/ BgSave(r)
  \/ \E status \in HttpStatuses : BgSubmit(r, status)
  \/ BgRunning(r)
  \/ BgCatch(r)

SweepStep(c) ==
  \/ \E sel \in selections : SweepStart(c, sel)
  \/ PollSkip(c)
  \/ \E dbOk \in BOOLEAN : PollFinished(c, dbOk)
  \/ PollUpdate(c)
  \/ PollLbRead(c)
  \/ PollLbWrite(c)

Fairness ==
  /\ \A r \in 1..MaxJobs :
       /\ WF_vars(JobStep(r))
       /\ WF_vars(\E v \in Verdicts(problemOf(r)) : JudgeFinish(r, v))
  /\ \A c \in 1..MaxCycles :
       /\ WF_vars(SweepStep(c))
       /\ SF_vars(\E dbOk \in BOOLEAN : PollFinished(c, dbOk))

SpecLive == Init /\ [][Next]_vars /\ Fairness

\* ------------------------------------------------------------ claims
Terminal(st) == st \in {"completed", "error"}
Is2xx(n) == n >= 200 /\ n <= 299
Is4xx(n) == n >= 400 /\ n <= 499
Handled(r) == req[r].pc # "idle"
Posted(r) == posts'[r] # posts[r]

\* C1: once a job's persisted status is completed or error, no later step changes
\* its status, score, stdout or stderr.
C1_TerminalIsFinal ==
  [][\A id \in DOMAIN executions :
       Terminal(executions[id].status) =>
         /\ executions'[id].status = executions[id].status
         /\ executions'[id].score = executions[id].score
         /\ executions'[id].stdout = executions[id].stdout
         /\ executions'[id].stderr = executions[id].stderr]_vars

\* C2: under fair scheduling and a backend that finishes every accepted
\* submission, every acknowledged job eventually is completed or error.
C2_Resolves ==
  \A r \in 1..MaxJobs :
    (req[r].http = 200) ~>
      (req[r].jobId \in DOMAIN executions /\ Terminal(executions[req[r].jobId].status))

C2_Witness ==
  \E r \in DOMAIN req :
    /\ req[r].http = 200
    /\ req[r].jobId \in DOMAIN executions
    /\ executions[req[r].jobId].status = "completed"
    /\ executions[req[r].jobId].metadata.judge0_url = JUDGE0_URLS[2]

\* C3: an endpoint's 4xx answer ends the submit at once with that failure and no
\* later endpoint is attempted; a rejected fetch or another non-2xx answer at an
\* endpoint that is not the last moves the loop to the next endpoint.
C3_ClientErrorFailsFast ==
  [][\A r \in DOMAIN req :
       /\ (Posted(r) /\ Is4xx(req'[r].lastStatus)) =>
            /\ req'[r].pc = "bg_catch"
            /\ req'[r].i = req[r].i
            /\ req'[r].lastError = <<"Client Error: ", ToString(req'[r].lastStatus)>>
       /\ (Posted(r) /\ ~Is4xx(req'[r].lastStatus) /\ ~Is2xx(req'[r].lastStatus)
             /\ req[r].i < Len(JUDGE0_URLS)) =>
            /\ req'[r].pc = "bg_submit"
            /\ req'[r].i = req[r].i + 1
       /\ req[r].pc \in {"bg_catch", "done"} => posts'[r] = posts[r]]_vars

C3_Witness ==
  \E r \in DOMAIN req :
    /\ req[r].pc = "bg_catch"
    /\ req[r].lastStatus = 400
    /\ req[r].i = 2
    /\ posts[r] = 2

\* C4: a successful submit returns the handle and the url of the endpoint that
\* accepted; every endpoint before it was attempted once and failed without a 4xx
\* answer, and no endpoint after it is attempted.
C4_FirstAcceptingEndpoint ==
  [][\A r \in DOMAIN req :
       /\ (req[r].pc = "bg_submit" /\ req'[r].pc = "bg_update") =>
            /\ Is2xx(req'[r].lastStatus)
            /\ posts'[r] = req[r].i
            /\ req'[r].url = JUDGE0_URLS[req[r].i]
            /\ judge0'[r].st = "pending"
            /\ judge0'[r].url = req'[r].url
            /\ judge0'[r].token = req'[r].token
       /\ (Posted(r) /\ req'[r].pc = "bg_submit") =>
            /\ posts'[r] = req[r].i
            /\ ~Is2xx(req'[r].lastStatus)
            /\ ~Is4xx(req'[r].lastStatus)
       /\ req[r].pc \in {"bg_update", "done"} => posts'[r] = posts[r]]_vars

C4_Witness ==
  \E r \in DOMAIN req :
    /\ req[r].pc = "bg_update"
    /\ req[r].url = JUDGE0_URLS[3]
    /\ posts[r] = 3

\* C5: when the submit fails with an error that is not a 4xx answer, every
\* configured endpoint was attempted and none accepted.
C5_UnavailableAfterAll ==
  \A r \in DOMAIN req :
    (req[r].pc = "bg_catch" /\ req[r].lastError # TypeErrorMessage
       /\ ~Is4xx(req[r].lastStatus)) =>
      /\ posts[r] = Len(JUDGE0_URLS)
      /\ req[r].i = Len(JUDGE0_URLS)
      /\ ~Is2xx(req[r].lastStatus)
      /\ judge0[r].st = "none"

C5_Witness ==
  \E r \in DOMAIN req :
    /\ req[r].pc = "bg_catch"
    /\ req[r].lastStatus = 500
    /\ posts[r] = Len(JUDGE0_URLS)

\* C6: the acknowledgment is sent when the job row exists with status queued and
\* no backend has been sent anything for the job; it holds the job id and the
\* status queued, it never changes afterwards, and no submission is posted
\* before it.
C6_AckBeforeDispatch ==
  [][\A r \in DOMAIN req :
       /\ (req[r].http # 200 /\ req'[r].http = 200) =>
            /\ req[r].jobId \in DOMAIN executions
            /\ executions[req[r].jobId].status = "queued"
            /\ posts[r] = 0
            /\ posts'[r] = 0
            /\ judge0[r].st = "none"
            /\ req'[r].body = "queued"
            /\ req'[r].jobId = req[r].jobId
       /\ req[r].http = 200 =>
            /\ req'[r].http = 200
            /\ req'[r].body = "queued"
            /\ req'[r].jobId = req[r].jobId
       /\ Posted(r) => req[r].http = 200]_vars

C6_Witness ==
  \E r \in DOMAIN req :
    /\ req[r].http = 200
    /\ req[r].body = "queued"
    /\ executions[req[r].jobId].status = "running"

BlankOrEmpty(code) == \A k \in DOMAIN code : code[k] \in {SP, NL}
DenyListed(code) == \E k \in DOMAIN code : code[k] \in forbidden

\* C7: a submission whose code is empty, blank or holds a deny-listed piece is
\* answered with a 4xx status; no job row is created for it and no backend is
\* sent anything for it.
C7_BadCodeRejected ==
  /\ \A r \in DOMAIN req :
       (Handled(r) /\ (BlankOrEmpty(req[r].code) \/ DenyListed(req[r].code))) =>
         /\ req[r].pc = "done"
         /\ Is4xx(req[r].http)
         /\ req[r].jobId = 0
         /\ posts[r] = 0
         /\ judge0[r].st = "none"
  /\ Len(executions) = Cardinality({r \in DOMAIN req : req[r].jobId # 0})

C7_Witness ==
  \E r \in DOMAIN req :
    /\ req[r].code = <<SP, NL>>
    /\ req[r].http = 400
    /\ executions = <<>>

\* C8: a submission naming a language outside the supported set is never
\* acknowledged as queued and no backend is sent a submission for it.
C8_UnknownLanguageRejected ==
  \A r \in DOMAIN req :
    (Handled(r) /\ req[r].language \notin DOMAIN JUDGE0_LANG_IDS) =>
      /\ req[r].http # 200
      /\ posts[r] = 0

\* the number of cases graded Accepted when the stored stdout is parsed
AcceptedIn(stdout, problem) ==
  Cardinality({i \in 1..Len(problem.testCases) :
                 parseResults(stdout, problem)[i].status = "Accepted"})

\* C9: the score of a completed job over a problem with at least one case is
\* passedCount / totalCases * 100 rounded to the nearest hundredth; 1 of 3 is 33.33.
C9_ScoreFormula ==
  \A id \in DOMAIN executions :
    LET problem == getProblemDetails(executions[id].metadata.problem_id, TRUE)
        n == Len(problem.testCases)
        passed == AcceptedIn(executions[id].stdout, problem)
        score == executions[id].score
    IN (executions[id].status = "completed" /\ n >= 1) =>
         /\ 2 * (score * n - 10000 * passed) <= n
         /\ 2 * (10000 * passed - score * n) <= n
         /\ (n = 3 /\ passed = 1) => score = 3333
         /\ (n = 3 /\ passed = 2) => score = 6667

C9_Witness ==
  \E id \in DOMAIN executions :
    /\ executions[id].status = "completed"
    /\ executions[id].metadata.problem_id = "p3"
    /\ executions[id].score = 3333

Least(S) == CHOOSE k \in S : \A m \in S : k <= m
Parsed == pout # NoResult
AcceptedCases == {i \in DOMAIN pout.results : pout.results[i].status = "Accepted"}

\* C10 as stated: one result per case in problem order; case i uses the first line
\* that begins with the marker and contains 'Test Case i: ', its actual being the
\* text after that piece; with no such line the case is a Runtime Error and does
\* not count as passed.
C10_AsStated ==
  Parsed =>
    LET lines == Split(pin)
        n == Len(pproblem.testCases)
        cand(i) == {k \in DOMAIN lines : /\ StartsWith(lines[k], <<MARKER>>)
                                         /\ Includes(lines[k], <<TestCaseTok[i]>>)}
        line(i) == lines[Least(cand(i))]
        after(i) == SubSeq(line(i), IndexFrom(line(i), <<TestCaseTok[i]>>, 1) + 1,
                           Len(line(i)))
    IN /\ Len(pout.results) = n
       /\ \A i \in 1..n :
            /\ pout.results[i].expected = pproblem.testCases[i].expected
            /\ IF cand(i) = {}
               THEN pout.results[i].status = "Runtime Error"
               ELSE /\ pout.results[i].status # "Runtime Error"
                    /\ pout.results[i].actual = Trim(after(i))
       /\ pout.passedCount = Cardinality(AcceptedCases)

\* C10: one result per case in problem order; case i uses the first line that
\* begins with the marker and contains the marker directly followed by
\* 'Test Case i: ', its actual being that line without the first occurrence of
\* this two-piece text, trimmed, and its status Accepted exactly when the
\* normalized actual equals the normalized expected; with no such line the case
\* is a Runtime Error with actual N/A; passedCount counts the Accepted cases;
\* lines that do not begin with the marker play no part.
C10_Parse ==
  Parsed =>
    LET lines == Split(pin)
        n == Len(pproblem.testCases)
        cand(i) == {k \in DOMAIN lines : /\ StartsWith(lines[k], <<MARKER>>)
                                         /\ Includes(lines[k], <<MARKER, TestCaseTok[i]>>)}
        line(i) == lines[Least(cand(i))]
        at(i) == IndexFrom(line(i), <<MARKER, TestCaseTok[i]>>, 1)
        rest(i) == Trim(SubSeq(line(i), 1, at(i) - 1)
                        \o SubSeq(line(i), at(i) + 2, Len(line(i))))
    IN /\ Len(pout.results) = n
       /\ \A i \in 1..n :
            /\ pout.results[i].expected = pproblem.testCases[i].expected
            /\ IF cand(i) = {}
               THEN /\ pout.results[i].status = "Runtime Error"
                    /\ pout.results[i].actual = <<"N/A">>
               ELSE /\ pout.results[i].actual = rest(i)
                    /\ pout.results[i].status =
                         IF normalize(pproblem.testCases[i].expected) = normalize(rest(i))
                         THEN "Accepted" ELSE "Wrong Answer"
       /\ pout.passedCount = Cardinality(AcceptedCases)

C10_Witness ==
  /\ Parsed
  /\ pin = <<MARKER, TestCaseTok[1], "a", NL, TestCaseTok[2], "a">>
  /\ pout.results[1].status = "Accepted"
  /\ pout.results[2].status = "Runtime Error"
  /\ pout.passedCount = 1

\* a text without its blanks, straight quotes and curly quotes, in lower case
StatedNormal(t) ==
  LET kept == SelectSeq(t, LAMBDA x : x \notin {SP, NL, "'", "\"", LDQUO, RDQUO})
  IN [k \in DOMAIN kept |-> IF kept[k] = "A" THEN "a" ELSE kept[k]]

\* C11: a case whose marker line is present is Accepted exactly when expected and
\* actual are equal once all whitespace and all straight and curly quotes are
\* removed and the rest is lower-cased, and Wrong Answer otherwise.
C11_NormalizedEquality ==
  (Parsed /\ Len(pproblem.testCases) = 1 /\ StartsWith(pin, searchStr(1))) =>
    pout.results[1].status =
      IF StatedNormal(pproblem.testCases[1].expected) = StatedNormal(pout.results[1].actual)
      THEN "Accepted" ELSE "Wrong Answer"

Secrets == {"y = 7", "y = 8"}

\* the problems that differ from p in the input and params of hidden cases only
HiddenVariants(p) ==
  {[p EXCEPT !.testCases = [i \in DOMAIN p.testCases |->
       IF p.testCases[i].hidden
       THEN [p.testCases[i] EXCEPT !.input = f[i], !.params = f[i]]
       ELSE p.testCases[i]]] : f \in [DOMAIN p.testCases -> Secrets]}

\* the problem p with every case visible
AllVisible(p) ==
  [p EXCEPT !.testCases = [i \in DOMAIN p.testCases |->
                             [p.testCases[i] EXCEPT !.hidden = FALSE]]]

\* C12: the results for two problems that differ only in the input and params of
\* hidden cases are identical; a hidden case shows the fixed placeholders for
\* input and params, and its status, expected and actual are those it would have
\* as a visible case.
C12_HiddenRedacted ==
  Parsed =>
    /\ \A q \in HiddenVariants(pproblem) :
         parseJudge0Output(pin, q).results = pout.results
    /\ \A i \in DOMAIN pproblem.testCases :
         LET visible == parseJudge0Output(pin, AllVisible(pproblem)).results[i]
         IN /\ pout.results[i].status = visible.status
            /\ pout.results[i].actual = visible.actual
            /\ pout.results[i].expected = visible.expected
            /\ pproblem.testCases[i].hidden =>
                 /\ pout.results[i].input = "Hidden"
                 /\ pout.results[i].params = "{}"
            /\ ~pproblem.testCases[i].hidden =>
                 /\ pout.results[i].input = pproblem.testCases[i].input
                 /\ pout.results[i].params = pproblem.testCases[i].params

C12_Witness ==
  /\ Parsed
  /\ pproblem = coding_problems["p3"]
  /\ pin = <<MARKER, TestCaseTok[2], "a">>
  /\ pout.results[2].status = "Accepted"
  /\ pout.results[2].input = "Hidden"
  /\ pout.results[1].input = "x = 1"

RECURSIVE SetSum(_, _)
SetSum(f, S) == IF S = {} THEN 0 ELSE LET x == CHOOSE y \in S : TRUE
                                      IN f[x] + SetSum(f, S \ {x})
SetMax(S) == CHOOSE x \in S : \A y \in S : y <= x
Stored(x) == IF x = NULL THEN 0 ELSE x

\* the sum, over the problems of the user's completed jobs and the problem of the
\* job just finished, of the best stored score, the new score taking part
RoundTotal(user, pid, newScore) ==
  LET mine == {k \in DOMAIN executions : /\ executions[k].user_id = user
                                         /\ executions[k].status = "completed"}
      pids == {executions[k].metadata.problem_id : k \in mine} \cup {pid}
      best == [q \in pids |->
                 SetMax({Stored(executions[k].score) :
                           k \in {m \in mine : executions[m].metadata.problem_id = q}}
                        \cup (IF q = pid THEN {newScore} ELSE {}))]
  IN SetSum(best, pids)

\* the leaderboard update of the last job has run to its end
BoardDone == sweep[1] = IdleSweep /\ executions # <<>>
LastJob == executions[Len(executions)]

\* C13: after a leaderboard update that ran alone, the user's stored round total is
\* the sum over problem ids of the best score among the user's completed jobs for
\* that problem, the new score taking part for its problem.
C13_RoundTotal ==
  BoardDone =>
    leaderboard[LastJob.user_id].round3_score =
      RoundTotal(LastJob.user_id, LastJob.metadata.problem_id, Stored(LastJob.score))

\* the jobs that were submitted without a user identity
AnonymousJobs == {req[r].jobId : r \in {q \in DOMAIN req : req[q].jobId # 0 /\ req[q].userId = ""}}

\* C14: a job submitted without a user identity is stored as anonymous, never puts
\* a cycle into the leaderboard logic, and no leaderboard entry changes in a step
\* of a cycle that is working on such a job.
C14_AnonymousExcluded ==
  [][/\ \A id \in AnonymousJobs : executions[id].user_id = "anonymous"
     /\ \A c \in DOMAIN sweep :
          (sweep'[c].pc \in {"lb_read", "lb_write"}) =>
            sweep'[c].jobs[sweep'[c].i] \notin AnonymousJobs
     /\ leaderboard' # leaderboard =>
          \E c \in DOMAIN sweep :
            /\ sweep[c].pc = "lb_write"
            /\ sweep'[c] # sweep[c]
            /\ curJob(c) \notin AnonymousJobs
            /\ \A u \in DOMAIN leaderboard :
                 leaderboard'[u] # leaderboard[u] => u = executions[curJob(c)].user_id
     /\ (\A id \in DOMAIN executions : id \in AnonymousJobs) =>
          leaderboard' = leaderboard]_vars

C14_Witness ==
  \E id \in AnonymousJobs :
    /\ executions[id].status = "completed"
    /\ executions[id].score = 10000
    /\ \A c \in DOMAIN sweep : sweep[c] = IdleSweep

\* the lines of the wrapped program's output that begin with the marker
MarkerLines == SelectSeq(Split(wout), LAMBDA l : StartsWith(l, <<MARKER>>))

\* C15: for every supported language the wrapped program prints exactly one marker
\* line per test case, in the order 1..n, and the line of a case whose call throws
\* is 'Test Case k: ERROR_RUNTIME' while the other cases keep their lines.
C15_OneMarkerLinePerCase ==
  wout # NotRun =>
    /\ Len(MarkerLines) = Len(pproblem.testCases)
    /\ \A k \in 1..Len(pproblem.testCases) :
         /\ StartsWith(MarkerLines[k], <<MARKER, TestCaseTok[k]>>)
         /\ (k \in wthrows) = (MarkerLines[k] = <<MARKER, TestCaseTok[k], "ERROR_RUNTIME">>)

\* the result texts that the marker lines of case k carry in the output out
ResultsOf(out, k) ==
  LET lines == Split(out)
  IN {SubSeq(lines[j], 3, Len(lines[j])) :
        j \in {m \in DOMAIN lines : StartsWith(lines[m], <<MARKER, TestCaseTok[k]>>)}}

\* the job of request r is terminal and the backend holds the output of its run
Ended(r) ==
  /\ req[r].jobId \in DOMAIN executions
  /\ Terminal(executions[req[r].jobId].status)
  /\ judge0[r].st = "done"
  /\ judge0[r].status_id # 6
  /\ Len(problemOf(r).testCases) >= 1

\* C16: a job whose output holds, for every case, a marker line whose result equals
\* the expected text under normalization ends completed with score 100.00 and
\* every case Accepted; a job whose output holds a marker line for every case, none
\* of them equal to the expected text, ends completed with score 0.00 and every
\* case Wrong Answer.
C16_EndToEnd ==
  \A r \in DOMAIN req :
    Ended(r) =>
      LET problem == problemOf(r)
          cases == 1..Len(problem.testCases)
          out == fromB64(judge0[r].stdout)
          job == executions[req[r].jobId]
          expected(k) == StatedNormal(problem.testCases[k].expected)
          graded == parseResults(job.stdout, problem)
      IN /\ (\A k \in cases : /\ ResultsOf(out, k) # {}
                              /\ \A t \in ResultsOf(out, k) : StatedNormal(t) = expected(k))
              => /\ job.status = "completed"
                 /\ job.score = 10000
                 /\ \A k \in cases : graded[k].status = "Accepted"
         /\ (\A k \in cases : /\ ResultsOf(out, k) # {}
                              /\ \A t \in ResultsOf(out, k) : StatedNormal(t) # expected(k))
              => /\ job.status = "completed"
                 /\ job.score = 0
                 /\ \A k \in cases : graded[k].status = "Wrong Answer"

\* C17: a status query for an existing job returns the row as it is persisted and
\* leaves every row as it is; the response carries the per-case results whenever
\* the row is completed and never when it is queued, running or error.
C17_StatusQuery ==
  [][(reply' # reply /\ reply'.http = 200) =>
       /\ reply'.id \in DOMAIN executions
       /\ reply'.data = executions[reply'.id]
       /\ executions' = executions
       /\ leaderboard' = leaderboard
       /\ (reply'.results # <<>>) = (executions[reply'.id].status = "completed")
       /\ reply'.results # <<>> =>
            reply'.results[1] =
              parseResults(executions[reply'.id].stdout,
                           getProblemDetails(executions[reply'.id].metadata.problem_id, TRUE))]_vars

JobStatuses == {"queued", "dispatching", "running", "completed", "error"}

StatedEdges == {<<"queued", "dispatching">>, <<"dispatching", "running">>,
                <<"dispatching", "error">>, <<"running", "completed">>,
                <<"running", "error">>}

\* C18: every status is one of queued, dispatching, running, completed, error; a
\* row is created queued; every change of a row's status is one of the edges
\* queued -> dispatching, dispatching -> running, dispatching -> error,
\* running -> completed, running -> error.
C18_StatusEdges ==
  [][\A r \in DOMAIN executions' :
       /\ executions'[r].status \in JobStatuses
       /\ r \notin DOMAIN executions => executions'[r].status = "queued"
       /\ (r \in DOMAIN executions /\ executions'[r].status # executions[r].status)
            => <<executions[r].status, executions'[r].status>> \in StatedEdges]_vars

\* the poll of a job by cycle c is in flight from its fetch to its last write
InFlight(c) == sweep[c].pc # "idle"

\* the update of PollUpdate by cycle c is the step that writes the row of its job
Writes(c) == sweep[c].pc = "update" /\ sweep'[c] # sweep[c]

\* C19: no two polls of one job are in flight together, neither in one cycle (a
\* cycle's list names no job twice) nor in two cycles that overlap, and the
\* terminal transition of a row is written at most once.
C19_SerializedPolls ==
  /\ [](\A c \in DOMAIN sweep : \A a, b \in DOMAIN sweep[c].jobs :
          a # b => sweep[c].jobs[a] # sweep[c].jobs[b])
  /\ [](\A c, d \in DOMAIN sweep :
          (c # d /\ InFlight(c) /\ InFlight(d)) => curJob(c) # curJob(d))
  /\ [][\A c \in DOMAIN sweep :
          Writes(c) => ~Terminal(executions[curJob(c)].status)]_vars

\* the handle and the endpoint the backend holds for the submission of a job
Accepted(id) == judge0[reqOfJob(id)]

Restarted(id) == req[reqOfJob(id)].pc = "done" /\ req[reqOfJob(id)].token = 0

\* C20: every running row has metadata holding the handle, the endpoint that
\* issued it and the problem id; the update that makes a row running writes that
\* metadata in the same step; across restarts every running row stays among the
\* rows a sweep selects, and a poll of it that reaches a write read the
\* submission at the endpoint that accepted it.
C20_RunningHasMetadata ==
  /\ [](\A id \in DOMAIN executions :
          executions[id].status = "running" =>
            /\ executions[id].metadata # NoMeta
            /\ Accepted(id).st # "none"
            /\ executions[id].metadata.judge0_token = Accepted(id).token
            /\ executions[id].metadata.judge0_url = Accepted(id).url
            /\ executions[id].metadata.problem_id = req[reqOfJob(id)].problemId
            /\ id \in runningIds
            /\ \E sel \in selections : \E k \in DOMAIN sel : sel[k] = id)
  /\ [][\A id \in DOMAIN executions :
          (executions[id].status # "running" /\ executions'[id].status = "running") =>
            /\ executions[id].metadata = NoMeta
            /\ executions'[id].metadata =
                 metadataOf(Accepted(id).token, Accepted(id).url,
                            req[reqOfJob(id)].problemId)]_vars
  /\ [][\A c \in DOMAIN sweep :
          (sweep[c].pc = "fetch" /\ sweep'[c].pc = "update") =>
            /\ Accepted(curJob(c)).url = executions[curJob(c)].metadata.judge0_url
            /\ Accepted(curJob(c)).token = executions[curJob(c)].metadata.judge0_token]_vars

\* after a restart, a running job that a fallback endpoint accepted has been
\* selected again and its finished run has been read
C20_Witness ==
  \E c \in DOMAIN sweep :
    /\ sweep[c].pc = "update"
    /\ Restarted(curJob(c))
    /\ executions[curJob(c)].status = "running"
    /\ executions[curJob(c)].metadata.judge0_url = JUDGE0_URLS[2]

\* the background task of r has caught a failure and has not yet written it
Caught(r) == req[r].pc = "bg_catch"

\* the dispatch of r is over and no endpoint accepted the submission
DispatchFailed(r) == req[r].pc = "done" /\ req[r].jobId # 0 /\ judge0[r].st = "none"

\* the message of the failure that ends the dispatch of r in this step
CauseMessage(r) ==
  IF req[r].pc \in {"inserted", "bg_save"} THEN TypeErrorMessage
  ELSE errorOf(req'[r].lastStatus)

\* C21: when the dispatch of an acknowledged job fails (the wrapper throws, an
\* endpoint rejects with a client-class status, or every endpoint has failed), the
\* message of that failure is what the catch block holds, the row becomes error
\* with that message as its stderr, and the row is never running.
C21_DispatchFailure ==
  /\ [][\A r \in DOMAIN req :
          (~Caught(r) /\ Caught(r)') =>
            /\ req[r].http = 200 \/ req'[r].http = 200
            /\ req'[r].lastError = CauseMessage(r)
            /\ req'[r].lastError # <<>>]_vars
  /\ [][\A r \in DOMAIN req :
          (Caught(r) /\ ~Caught(r)') =>
            /\ executions[req[r].jobId].status = "queued"
            /\ executions'[req[r].jobId].status = "error"
            /\ executions'[req[r].jobId].stderr = req[r].lastError]_vars
  /\ \A r \in 1..MaxJobs : Caught(r) ~> DispatchFailed(r)
  /\ [](\A r \in DOMAIN req :
          DispatchFailed(r) =>
            /\ executions[req[r].jobId].status = "error"
            /\ executions[req[r].jobId].stderr # <<>>
            /\ executions[req[r].jobId].metadata = NoMeta)

\* a java job whose wrapper threw on a case without params has ended error
C21_Witness ==
  \E r \in DOMAIN req :
    /\ DispatchFailed(r)
    /\ executions[req[r].jobId].status = "error"
    /\ executions[req[r].jobId].stderr = TypeErrorMessage

\* cycle c is about to read the backend's answer for a job whose run is in progress
ObservesInProgress(c) ==
  /\ sweep[c].pc = "fetch"
  /\ Accepted(curJob(c)).status_id <= 2

\* C22: a poll that finds status.id <= 2 is a no-op: the cycle moves on to its
\* next job, and no row of executions and no leaderboard entry changes.
C22_InProgressNoOp ==
  [][\A c \in DOMAIN sweep :
       (ObservesInProgress(c) /\ sweep'[c] # sweep[c]) =>
         /\ sweep'[c] = nextJob(sweep[c])
         /\ executions' = executions
         /\ leaderboard' = leaderboard]_vars

\* the first cycle's poll of a running job has ended while the run was in
\* progress, a later cycle polls the job again, and the row is as dispatch left it
C22_Witness ==
  /\ sweep[1].pc = "idle"
  /\ sweep[2].pc = "fetch"
  /\ ObservesInProgress(2)
  /\ executions[curJob(2)].status = "running"
  /\ executions[curJob(2)].stdout = <<>>
  /\ executions[curJob(2)].score = 0

\* cycle c writes the row of a running job whose run the backend reports as
\* finished with a status other than 6
WritesFinished(c) ==
  /\ Writes(c)
  /\ executions[curJob(c)].status = "running"
  /\ Accepted(curJob(c)).status_id > 2
  /\ Accepted(curJob(c)).status_id # 6

\* the score the grader gives to the stdout of a finished run of job id
GradedScore(id) ==
  LET problem == getProblemDetails(executions[id].metadata.problem_id, TRUE)
  IN toJSON(computeScore(parseJudge0Output(fromB64(Accepted(id).stdout), problem).passedCount,
                         Len(problem.testCases)))

\* C23: the write of a poll that found a finished status other than 6 makes the
\* row completed and stores, in the same update, the score and the decoded stdout
\* and stderr.
C23_FinishedCompletes ==
  [][\A c \in DOMAIN sweep :
       WritesFinished(c) =>
         /\ executions'[curJob(c)].status = "completed"
         /\ executions'[curJob(c)].stdout = fromB64(Accepted(curJob(c)).stdout)
         /\ executions'[curJob(c)].stderr = fromB64(Accepted(curJob(c)).stderr)
         /\ executions'[curJob(c)].score = GradedScore(curJob(c))]_vars

\* cycle c writes the row of a running job whose run ended in a compile error
WritesCompileError(c) ==
  /\ Writes(c)
  /\ executions[curJob(c)].status = "running"
  /\ Accepted(curJob(c)).status_id = 6

\* C24: the write of a poll that found status.id 6 makes the row error, with the
\* decoded compile_output in stderr, the field that holds the message of a
\* dispatch failure; a row whose run ended in status 6 is never completed.
C24_CompileError ==
  /\ [][\A c \in DOMAIN sweep :
          WritesCompileError(c) =>
            /\ executions'[curJob(c)].status = "error"
            /\ executions'[curJob(c)].stderr = fromB64(Accepted(curJob(c)).compile_output)]_vars
  /\ [](\A id \in DOMAIN executions :
          (executions[id].metadata # NoMeta /\ Accepted(id).status_id = 6) =>
            executions[id].status # "completed")

\* C25: every row in error carries a cause: its error detail is not empty, be it
\* the stderr that a dispatch failure writes or the diagnostic that the
\* compile-error path writes to stdout.
C25_ErrorHasCause ==
  \A id \in DOMAIN executions :
    executions[id].status = "error" =>
      executions[id].stderr # <<>> \/ executions[id].stdout # <<>>

\* the job of row id ran against a problem without test cases
ZeroCases(id) ==
  /\ executions[id].metadata # NoMeta
  /\ getProblemDetails(executions[id].metadata.problem_id, TRUE).testCases = <<>>

\* C26: every stored score is a number from 0 to 100 (in hundredths, 0 to 10000);
\* a completed row for a problem with zero test cases has score 0 or 100.
C26_ScoreInRange ==
  \A id \in DOMAIN executions :
    /\ executions[id].score \in 0..10000
    /\ (executions[id].status = "completed" /\ ZeroCases(id)) =>
         executions[id].score \in {0, 10000}

\* the submit of r ends in this step without an accepting endpoint and without a
\* client-class answer
Exhausts(r) ==
  /\ Posted(r)
  /\ req'[r].pc = "bg_catch"
  /\ ~Is4xx(req'[r].lastStatus)

\* C27: a submit that no endpoint accepted and that met no client-class answer
\* throws the error of the last endpoint attempted, which is the last configured
\* one; the message "All Judge0 instances failed." is thrown only if no error
\* was observed, never after an attempt.
C27_LastErrorSurfaced ==
  /\ [][\A r \in DOMAIN req :
          Exhausts(r) =>
            /\ req[r].i = Len(JUDGE0_URLS)
            /\ req'[r].lastError = errorOf(req'[r].lastStatus)]_vars
  /\ [](\A r \in DOMAIN req :
          (req[r].lastError = AllFailedMessage
             \/ (req[r].jobId \in DOMAIN executions
                 /\ executions[req[r].jobId].stderr = AllFailedMessage)) => posts[r] = 0)

\* every endpoint was attempted, the last attempt was aborted, and the row holds
\* the message of the abort
C27_Witness ==
  \E r \in DOMAIN req :
    /\ DispatchFailed(r)
    /\ posts[r] = Len(JUDGE0_URLS)
    /\ executions[req[r].jobId].stderr = <<"This operation was aborted">>

\* cycle c writes the leaderboard row of the user of its job
WritesBoard(c) == sweep[c].pc = "lb_write" /\ sweep'[c] # sweep[c]

\* a stored total of a prior round, a missing one counting for nothing
Prior(x) == IF x = NULL THEN 0 ELSE x

Handles(r) == req[r].pc = "idle" /\ req'[r].pc # "idle"

InComment(text, k) ==
  \E j \in 1..(k - 1) :
    text[j] = "//" /\ \A i \in j..k : text[i] # NL

\* a declaration 'public class Solution' begins at position k of text
PublicSolutionAt(text, k) ==
  /\ matchAt(text, k) > 0
  /\ text[k + matchAt(text, k) - 1] = "Solution"
  /\ ~InComment(text, k)

\* the user code declares the class Solution once, as public or not
DeclaresSolutionOnce(code) ==
  Cardinality({k \in DOMAIN code :
                 /\ code[k] = "Solution"
                 /\ ~InComment(code, k)}) = 1

\* C30: for java code that declares Solution once, the wrapped program holds no
\* declaration 'public class Solution', and the code embedded between the
\* imports and the Main class is the user code with its declaration
\* 'public class Solution', if it has one, replaced by 'class Solution' and
\* nothing else changed.
C30_JavaDemotesSolution ==
  (wout # NotRun /\ DeclaresSolutionOnce(wcode)) =>
    /\ \A k \in DOMAIN wout : ~PublicSolutionAt(wout, k)
    /\ \E k \in DOMAIN wcode :
         \/ /\ PublicSolutionAt(wcode, k)
            /\ wout = JavaPrelude \o SubSeq(wcode, 1, k - 1) \o <<"class", SP, "Solution">>
                        \o SubSeq(wcode, k + matchAt(wcode, k), Len(wcode))
                        \o JavaMain(pproblem)
         \/ /\ \A j \in DOMAIN wcode : ~PublicSolutionAt(wcode, j)
            /\ wout = JavaPrelude \o wcode \o JavaMain(pproblem)

\* the poll by cycle c of a job whose run has ended fails in this step: the cycle
\* leaves the fetch without a verdict
FailedPoll(c) ==
  /\ sweep[c].pc = "fetch"
  /\ Accepted(curJob(c)).status_id > 2
  /\ sweep'[c] # sweep[c]
  /\ sweep'[c].pc # "update"

\* C31: a failed poll changes no row and no leaderboard entry, and the cycle goes
\* on to poll the next job it selected; a cycle ends only after the last job it
\* selected.
C31_FailedPollIsolated ==
  /\ [][\A c \in DOMAIN sweep :
          FailedPoll(c) =>
            /\ executions' = executions
            /\ leaderboard' = leaderboard
            /\ sweep[c].i < Len(sweep[c].jobs) =>
                 /\ sweep'[c].pc = "fetch"
                 /\ sweep'[c].jobs = sweep[c].jobs
                 /\ sweep'[c].i = sweep[c].i + 1]_vars
  /\ [][\A c \in DOMAIN sweep :
          (InFlight(c) /\ ~InFlight(c)') => sweep[c].i = Len(sweep[c].jobs)]_vars

\* the poll of the first job of a cycle has failed: its run has ended, its row is
\* running as dispatch left it, and the cycle is at the fetch of its second job
C31_Witness ==
  \E c \in DOMAIN sweep :
    /\ sweep[c].pc = "fetch"
    /\ sweep[c].i = 2
    /\ \A d \in DOMAIN sweep : d # c => ~InFlight(d)
    /\ \A id \in DOMAIN executions :
         executions[id].status = "running" /\ executions[id].stdout = <<>>
    /\ Accepted(sweep[c].jobs[1]).status_id > 2

\* every job of user u is terminal and no cycle is in flight
Settled(u) ==
  /\ \A id \in DOMAIN executions :
       executions[id].user_id = u => Terminal(executions[id].status)
  /\ \A c \in DOMAIN sweep : ~InFlight(c)

\* the sum, over the problems of the completed jobs of user u, of the best stored
\* score
FinalTotal(u) ==
  LET mine == {k \in DOMAIN executions : /\ executions[k].user_id = u
                                         /\ executions[k].status = "completed"}
      pids == {executions[k].metadata.problem_id : k \in mine}
      best == [q \in pids |->
                 SetMax({Stored(executions[k].score) :
                           k \in {m \in mine : executions[m].metadata.problem_id = q}})]
  IN SetSum(best, pids)

\* C32: once every job of a user is terminal and every leaderboard update has
\* ended, the stored round total of the user is the sum over the problems of the
\* best score among the user's completed jobs.
C32_TotalAfterInterleaving ==
  \A u \in Users :
    Settled(u) =>
      /\ leaderboard[u].exists
      /\ leaderboard[u].round3_score = FinalTotal(u)

\* some cycle is polling job id
Polled(id) == \E c \in DOMAIN sweep : InFlight(c) /\ curJob(c) = id

\* C33: every running job with metadata is eventually polled by a cycle of the
\* polling worker, however many other jobs are running and stay running.
C33_NoStarvation ==
  \A id \in 1..Crowd : (id \in runningIds) ~> Polled(id)

====
